---- MODULE Spec2Model ----
(***************************************************************************)
(* The incremental field-extraction engine of the Extractor page           *)
(* (src/shell/src/app/use-cases/extractor/page.tsx) together with the      *)
(* request validation and response shape of its extraction route           *)
(* (src/unnamed/part_006) and the namespaced storage the result cache      *)
(* lives in (src/shell/src/lib/persist.ts).                                *)
(*                                                                         *)
(* React state is modelled by the value every functional updater is        *)
(* applied to.  A handler reads the component's state through the closure  *)
(* of the render it was created in: a handler started by a user event      *)
(* sees the current state, while the continuation of an await or of a      *)
(* setTimeout keeps the documents / columns / customTypes of the render    *)
(* in which the handler was started.  Those snapshots are carried in the   *)
(* records of the in-flight work.                                          *)
(***************************************************************************)
EXTENDS Integers, Sequences, FiniteSets, TLC

\* ------------------------------------------------------------------ bounds
\* number of user-triggered operations explored in one behaviour
MaxOps == 3
\* number of files of one upload
MaxFiles == 2

\* ------------------------------------------------------- input alphabets
BaseTypes == {"text", "number", "date", "boolean"}
ColumnBaseTypes == {"text"}
Cardinalities == {"one", "many"}
NewColumnCardinalities == {"one"}
TypeNames == {"Person", "Org"}
ColumnName == "Name"
ColumnDescription == "desc"
FileText == "t"
Texts == {"", FileText}
Vals == {"v1", "v2"}
FailureKinds == {"network", "status", "malformed"}

Attr(n) == [name |-> n, description |-> "desc", type |-> "text"]
AttributeLists == {<<Attr("name")>>, <<Attr("name"), Attr("email")>>}

\* ------------------------------------------------------- generic helpers
Range(s) == {s[i] : i \in 1..Len(s)}
RemoveAt(s, i) == [j \in 1..(Len(s) - 1) |-> IF j < i THEN s[j] ELSE s[j + 1]]
EmptyRow == [k \in {} |-> "v1"]
\* { ...a, ...b }
Spread(a, b) == [k \in (DOMAIN a) \cup (DOMAIN b) |-> IF k \in DOMAIN b THEN b[k] ELSE a[k]]
\* next[k] = v
Put(f, k, v) == [x \in (DOMAIN f) \cup {k} |-> IF x = k THEN v ELSE f[x]]
Without(f, k) == [x \in (DOMAIN f) \ {k} |-> f[x]]
IdsOf(s) == [i \in 1..Len(s) |-> s[i].id]
Cross(docIds, colIds) == {<<d, c>> : d \in Range(docIds), c \in Range(colIds)}

VARIABLES
    documents,      \* UploadedDoc[]
    columns,        \* Column[]
    customTypes,    \* CustomType[]
    resultsByDoc,   \* the Matrix: documentId -> (columnId -> value)
    loadingCells,   \* set of <<documentId, columnId>>
    extractionCache,\* the Cache: key -> cached row
    everCached,     \* history: every write ever made to the Cache
    inflight,       \* extraction invocations awaiting their response
    uploads,        \* handleFilesSelected invocations awaiting the upload response
    timers,         \* pending setTimeout callbacks of handleUpdateCustomType
    alerts,         \* the alerts raised by the latest handler, each the parts of its text
    lastCall,       \* the extraction invocations the latest handler started
    lastDone,       \* the extraction invocation the latest handler completed, with its outcome
    nextDoc,        \* number of document ids handed out by randomId("doc")
    nextCol,        \* number of column ids handed out by randomId("col")
    ops,            \* number of user operations performed
    addColumnForm,  \* AddColumnDialog's mode and typeName, kept while the dialog is closed
    post,           \* the route: one POST /api/extractor being handled
    hashed,         \* createExtractionCacheKey on two inputs, at the level of characters
    store           \* localStorage behind createNamespacedStorage("extractor-results")

vars == <<documents, columns, customTypes, resultsByDoc, loadingCells, extractionCache,
          everCached, inflight, uploads, timers, alerts, lastCall, lastDone,
          nextDoc, nextCol, ops, addColumnForm, post, hashed, store>>

\* what is not state of the page component
offPage == <<post, hashed, store>>

\* ------------------------------------------------------------ fingerprint
\* inputStr: the five parts joined by "|", the column and the custom types in
\* their JSON form.  A key stands for the inputStr it is the hash of; the
\* 32-bit rolling hash of that string is not computed, so two keys are equal
\* exactly when the five parts are.
createExtractionCacheKey(docId, colId, docText, column, types) ==
    <<docId, colId, docText, column, types>>

\* ------------------------------------------------- Matrix / loading helpers
markCellsLoading(prev, docIds, colIds) == prev \cup Cross(docIds, colIds)

\* cellKey built with its arguments swapped
markCellsDoneSwapped(prev, docIds, colIds) == prev \ Cross(colIds, docIds)

markCellsDone(prev, docIds, colIds) == prev \ Cross(docIds, colIds)

\* the spread written the other way round: { ...r.data, ...existingRow }
RECURSIVE mergeLoopExistingWins(_, _)
mergeLoopExistingWins(next, newResults) ==
    IF newResults = <<>> THEN next
    ELSE LET r == Head(newResults)
             existingRow == IF r.documentId \in DOMAIN next THEN next[r.documentId] ELSE EmptyRow
         IN mergeLoopExistingWins(Put(next, r.documentId, Spread(r.data, existingRow)),
                                  Tail(newResults))

RECURSIVE mergeLoop(_, _)
mergeLoop(next, newResults) ==
    IF newResults = <<>> THEN next
    ELSE LET r == Head(newResults)
             existingRow == IF r.documentId \in DOMAIN next THEN next[r.documentId] ELSE EmptyRow
         IN mergeLoop(Put(next, r.documentId, Spread(existingRow, r.data)), Tail(newResults))

\* the row is replaced by the incoming data instead of being spread over existingRow
RECURSIVE mergeReplacingRows(_, _)
mergeReplacingRows(next, newResults) ==
    IF newResults = <<>> THEN next
    ELSE mergeReplacingRows(Put(next, Head(newResults).documentId, Head(newResults).data),
                            Tail(newResults))

mergeExtractionResults(prev, newResults) == mergeLoop(prev, newResults)

\* every row is emptied instead of losing one key
cleanupResultsEmptyingRows(prev, columnId) == [d \in DOMAIN prev |-> EmptyRow]

cleanupResults(prev, columnId) == [d \in DOMAIN prev |-> Without(prev[d], columnId)]

\* the document part of the key compared with the column id
cleanupLoadingByDocument(prev, columnId) == {k \in prev : k[1] # columnId}

cleanupLoading(prev, columnId) == {k \in prev : k[2] # columnId}

\* ----------------------------------------------------------------- cache
cacheGet(cache, key) == IF key \in DOMAIN cache THEN <<cache[key]>> ELSE <<>>

cacheSet(cache, key, value) == Put(cache, key, value)

\* ------------------------------------------------- cache probe (both entry points)
KeyOf(doc, col, types) == createExtractionCacheKey(doc.id, col.id, doc.text, col, types)

\* `if (cached)`: a stored row is an object, hence truthy
IsCached(cache, doc, col, types) == cacheGet(cache, KeyOf(doc, col, types)) # <<>>

RECURSIVE Flatten(_)
Flatten(ss) == IF ss = <<>> THEN <<>> ELSE Head(ss) \o Flatten(Tail(ss))

\* Array.from(new Set(xs)): first occurrences, in order
RECURSIVE Dedupe(_)
Dedupe(xs) ==
    IF xs = <<>> THEN <<>>
    ELSE LET rest == Dedupe(SelectSeq(Tail(xs), LAMBDA x : x # Head(xs)))
         IN <<Head(xs)>> \o rest

\* the rows pushed to cachedResults for one document
cachedRowsOf(cache, doc, cols, types) ==
    LET hit == SelectSeq(cols, LAMBDA c : IsCached(cache, doc, c, types))
    IN [i \in 1..Len(hit) |->
          [documentId |-> doc.id, data |-> Head(cacheGet(cache, KeyOf(doc, hit[i], types)))]]

\* the hits are not pushed to cachedResults
cachedResultsDropped(cache, docs, cols, types) == <<>>

cachedResultsOf(cache, docs, cols, types) ==
    Flatten([i \in 1..Len(docs) |-> cachedRowsOf(cache, docs[i], cols, types)])

\* the cache is not consulted: every document is requested for every column
uncachedRequestsEveryDocument(cache, docs, cols, types) ==
    [i \in 1..Len(docs) |-> [doc |-> docs[i], columns |-> cols]]

\* a document without a miss is pushed as well
uncachedRequestsKeepingHits(cache, docs, cols, types) ==
    [i \in 1..Len(docs) |->
       [doc |-> docs[i],
        columns |-> SelectSeq(cols, LAMBDA c : KeyOf(docs[i], c, types) \notin DOMAIN cache)]]

\* uncachedRequests: { doc, columns: docUncachedColumns } for every doc with a miss
uncachedRequestsOf(cache, docs, cols, types) ==
    LET perDoc == [i \in 1..Len(docs) |->
                     [doc |-> docs[i],
                      columns |-> SelectSeq(cols, LAMBDA c : ~IsCached(cache, docs[i], c, types))]]
    IN SelectSeq(perDoc, LAMBDA r : r.columns # <<>>)

requestDocuments(requests) == [i \in 1..Len(requests) |-> requests[i].doc]

requestColumns(requests) ==
    Dedupe(Flatten([i \in 1..Len(requests) |-> requests[i].columns]))

\* extractForNewColumn sends columns: [newColumn]; extractForNewDocuments sends
\* allUncachedColumns
RequestBody(fn, cols, requests, types) ==
    [documents |-> requestDocuments(requests),
     columns |-> IF fn = "column" THEN cols ELSE requestColumns(requests),
     customTypes |-> types]

Invocation(fn, origin, docs, cols, types, requests) ==
    [fn |-> fn, origin |-> origin, docs |-> docs, cols |-> cols,
     docIds |-> IdsOf(docs), colIds |-> IdsOf(cols),
     customTypes |-> types, requests |-> requests,
     overlap |-> <<>>,
     body |-> IF requests = <<>> THEN <<>> ELSE <<RequestBody(fn, cols, requests, types)>>]

\* only the cells that missed are marked loading
extractStartMarkingMisses(fn, origin, docs, cols, types, matrix, loading, cache) ==
    LET cachedResults == cachedResultsOf(cache, docs, cols, types)
        requests == uncachedRequestsOf(cache, docs, cols, types)
        missed == UNION {Cross(<<requests[i].doc.id>>, IdsOf(requests[i].columns)) :
                           i \in 1..Len(requests)}
    IN [results |-> IF cachedResults # <<>> THEN mergeExtractionResults(matrix, cachedResults)
                    ELSE matrix,
        loading |-> loading \cup missed,
        call |-> Invocation(fn, origin, docs, cols, types, requests)]

\* The synchronous part of an extraction invocation, up to the fetch: the
\* new Matrix, the new loading set and the invocation as started.
extractStart(fn, origin, docs, cols, types, matrix, loading, cache) ==
    LET docIds == IdsOf(docs)
        colIds == IdsOf(cols)
        loading1 == markCellsLoading(loading, docIds, colIds)
        cachedResults == cachedResultsOf(cache, docs, cols, types)
        requests == uncachedRequestsOf(cache, docs, cols, types)
        matrix1 == IF cachedResults # <<>> THEN mergeExtractionResults(matrix, cachedResults)
                   ELSE matrix
    IN [results |-> matrix1,
        loading |-> IF requests = <<>> THEN markCellsDone(loading1, docIds, colIds) ELSE loading1,
        call |-> Invocation(fn, origin, docs, cols, types, requests)]

NoStart(matrix, loading) == [results |-> matrix, loading |-> loading, call |-> <<>>]
Started(r) == [results |-> r.results, loading |-> r.loading, call |-> <<r.call>>]

extractForNewColumn(origin, docs, types, newColumn, matrix, loading, cache) ==
    IF docs = <<>> THEN NoStart(matrix, loading)
    ELSE Started(extractStart("column", origin, docs, <<newColumn>>, types, matrix, loading, cache))

extractForNewDocuments(origin, newDocs, targetColumns, types, matrix, loading, cache) ==
    IF newDocs = <<>> \/ targetColumns = <<>> THEN NoStart(matrix, loading)
    ELSE Started(extractStart("documents", origin, newDocs, targetColumns, types,
                              matrix, loading, cache))

\* the invocations of `calls` that issued a request
Issued(calls) == SelectSeq(calls, LAMBDA c : c.body # <<>>)

\* ------------------------------------------------- the extraction route
TypeNamesOf(types) == {types[i].name : i \in 1..Len(types)}

\* RequestSchema.parse and buildCustomTypeSchema: the request is answered 400
ServerRejects(body) ==
    \/ body.documents = <<>>
    \/ body.columns = <<>>
    \/ \E d \in Range(body.documents) : d.id = 0 \/ d.name = "" \/ d.text = ""
    \/ \E c \in Range(body.columns) :
          c.type.kind = "custom" /\ c.type.typeName \notin TypeNamesOf(body.customTypes)

\* data = JSON.parse(content): an object holding some of the requested columns
\* ({} also when content is not JSON), or null when content is the text "null";
\* a null data is written as the empty row flagged isNull
RowDatas(colIds) ==
    {[data |-> d, isNull |-> FALSE] : d \in UNION {[S -> Vals] : S \in SUBSET colIds}}
    \cup {[data |-> EmptyRow, isNull |-> TRUE]}

\* results = documents.map(doc => ({ documentId: doc.id, data }))
ServerResults(body) ==
    LET n == Len(body.documents)
        colIds == Range(IdsOf(body.columns))
    IN {[i \in 1..n |-> [documentId |-> body.documents[i].id, data |-> f[i].data,
                          isNull |-> f[i].isNull]] :
          f \in [1..n -> RowDatas(colIds)]}

\* ------------------------------------------------- applying a response
findRequest(inv, documentId) ==
    SelectSeq(inv.requests, LAMBDA r : r.doc.id = documentId)

\* one extractionCache.set(cacheKey, value), with the cell the key was computed for
Write(doc, col, types, value) ==
    [key |-> KeyOf(doc, col, types), docId |-> doc.id, colId |-> col.id, value |-> value,
     isNull |-> FALSE]

\* extractionCache.set(cacheKey, null): the text "null" is stored, which get
\* parses to null, so that `if (cached)` fails as for an absent key
NullWrite(doc, col, types) == [Write(doc, col, types, EmptyRow) EXCEPT !.isNull = TRUE]

\* the key is computed from the placeholder text instead of the text that was sent
columnWritesPlaceholderKey(inv, result) ==
    LET found == SelectSeq(inv.requests, LAMBDA r : r.doc.id = result.documentId)
    IN IF found = <<>> THEN <<>>
       ELSE <<Write([found[1].doc EXCEPT !.text = ""], inv.cols[1], inv.customTypes,
                    result.data)>>

\* extractForNewColumn: cache.set(key, result.data) for every row of a requested document
columnWrites(inv, result) ==
    LET found == findRequest(inv, result.documentId)
    IN IF found = <<>> THEN <<>>
       ELSE IF result.isNull THEN <<NullWrite(found[1].doc, inv.cols[1], inv.customTypes)>>
       ELSE <<Write(found[1].doc, inv.cols[1], inv.customTypes, result.data)>>

\* extractForNewDocuments: cache.set(key, {[col.id]: value}) for the columns that were
\* requested for this document and are present in its row
documentWrites(inv, result) ==
    LET found == findRequest(inv, result.documentId)
    IN IF found = <<>> THEN <<>>
       ELSE LET present == SelectSeq(found[1].columns, LAMBDA c : c.id \in DOMAIN result.data)
            IN [i \in 1..Len(present) |->
                  Write(found[1].doc, present[i], inv.customTypes,
                        [k \in {present[i].id} |-> result.data[k]])]

\* only the first row of the response is cached
cacheWritesFirstRow(inv, results) ==
    IF results = <<>> THEN <<>>
    ELSE IF inv.fn = "column" THEN columnWrites(inv, results[1])
    ELSE documentWrites(inv, results[1])

cacheWrites(inv, results) ==
    Flatten([i \in 1..Len(results) |->
               IF inv.fn = "column" THEN columnWrites(inv, results[i])
               ELSE documentWrites(inv, results[i])])

\* result.data[col.id] of extractForNewDocuments throws a TypeError when the
\* data of a requested document's row is null: the index of the first such row,
\* 0 if there is none
firstThrowingRow(inv, results) ==
    LET throwing == {i \in 1..Len(results) :
                        /\ inv.fn = "documents"
                        /\ results[i].isNull
                        /\ findRequest(inv, results[i].documentId) # <<>>}
    IN IF throwing = {} THEN 0 ELSE CHOOSE i \in throwing : \A j \in throwing : i <= j

\* the Cache as get reads it: a stored null reads as an absent key
RECURSIVE applyWrites(_, _)
applyWrites(cache, writes) ==
    IF writes = <<>> THEN cache
    ELSE applyWrites(IF Head(writes).isNull THEN Without(cache, Head(writes).key)
                     ELSE cacheSet(cache, Head(writes).key, Head(writes).value),
                     Tail(writes))

\* ------------------------------------------------------------ initial state
\* A session starts from the persisted state (usePersistentState): nothing, or
\* what an earlier session left after uploading a document while there was no
\* column and after defining a custom type.  Nothing is in flight.
PersistedDocuments == {<<>>, <<[id |-> 1, name |-> "f", text |-> FileText]>>}
PersistedTypes == {<<>>, <<[name |-> "Person", description |-> "desc",
                            attributes |-> <<Attr("name")>>]>>}

\* useState("base"), useState("") of AddColumnDialog
EmptyForm == [mode |-> "base", typeName |-> ""]
\* no request is being handled by the route
NoPost == [pc |-> "idle"]
\* the backing store is not looked at: the Cache is extractionCache
NoHash == [keys |-> <<>>]
NoStore == [kind |-> "none"]

Init ==
    /\ documents \in PersistedDocuments
    /\ columns = <<>>
    /\ customTypes \in PersistedTypes
    /\ resultsByDoc = <<>>
    /\ loadingCells = {}
    /\ extractionCache = <<>>
    /\ everCached = {}
    /\ inflight = <<>>
    /\ uploads = <<>>
    /\ timers = <<>>
    /\ alerts = <<>>
    /\ lastCall = <<>>
    /\ lastDone = <<>>
    /\ nextDoc = Len(documents)
    /\ nextCol = 0
    /\ ops = 0
    /\ addColumnForm = EmptyForm
    /\ post = NoPost
    /\ hashed = NoHash
    /\ store = NoStore

\* the setTimeout callback of handleUpdateCustomType runs to completion
Busy == timers # <<>> /\ timers[1].started
UserMay == ~Busy /\ ops < MaxOps

\* what a handler does with the outcome of the extraction it starts
Launch(start) ==
    /\ resultsByDoc' = start.results
    /\ loadingCells' = start.loading
    /\ inflight' = inflight \o Issued(start.call)
    /\ lastCall' = start.call
    /\ lastDone' = <<>>

Quiet ==
    /\ lastCall' = <<>>
    /\ lastDone' = <<>>

\* --------------------------------------------------------- document upload
ClientDocs(k) == [i \in 1..k |-> [id |-> nextDoc + i, name |-> "f", text |-> ""]]

handleFilesSelected(k) ==
    /\ UserMay
    /\ LET clientDocs == ClientDocs(k)
       IN /\ documents' = documents \o clientDocs
          /\ loadingCells' = IF columns # <<>>
                             THEN markCellsLoading(loadingCells, IdsOf(clientDocs), IdsOf(columns))
                             ELSE loadingCells
          /\ uploads' = Append(uploads, [clientDocs |-> clientDocs, columns |-> columns,
                                         customTypes |-> customTypes])
    /\ nextDoc' = nextDoc + k
    /\ ops' = ops + 1
    /\ alerts' = <<>>
    /\ Quiet
    /\ UNCHANGED <<offPage, addColumnForm, columns, customTypes, resultsByDoc, extractionCache, everCached, inflight,
                   timers, nextCol>>

\* setDocuments((prev) => ...) of the upload response: texts filled in by id,
\* documents that are no longer in prev are added
fillTexts(prev, returned) ==
    LET updated == [i \in 1..Len(prev) |->
                      LET m == SelectSeq(returned, LAMBDA d : d.id = prev[i].id)
                      IN IF m = <<>> THEN prev[i] ELSE [prev[i] EXCEPT !.text = m[Len(m)].text]]
        added == SelectSeq(returned, LAMBDA d : d.id \notin Range(IdsOf(prev)))
    IN updated \o added

uploadSucceeds(i, texts) ==
    /\ ~Busy
    /\ LET up == uploads[i]
           returnedDocs == [j \in 1..Len(up.clientDocs) |->
                              [up.clientDocs[j] EXCEPT !.text = texts[j]]]
           start == IF up.columns # <<>> /\ returnedDocs # <<>>
                    THEN extractForNewDocuments("upload", returnedDocs, up.columns,
                             up.customTypes, resultsByDoc, loadingCells, extractionCache)
                    ELSE NoStart(resultsByDoc, loadingCells)
       IN /\ documents' = fillTexts(documents, returnedDocs)
          /\ Launch(start)
    /\ uploads' = RemoveAt(uploads, i)
    /\ alerts' = <<>>
    /\ UNCHANGED <<offPage, addColumnForm, columns, customTypes, extractionCache, everCached, timers, nextDoc,
                   nextCol, ops>>

uploadFails(i) ==
    /\ ~Busy
    /\ LET up == uploads[i]
       IN loadingCells' = markCellsDone(loadingCells, IdsOf(up.clientDocs), IdsOf(up.columns))
    /\ uploads' = RemoveAt(uploads, i)
    /\ alerts' = <<<<"Failed to upload files">>>>
    /\ Quiet
    /\ UNCHANGED <<offPage, addColumnForm, documents, columns, customTypes, resultsByDoc, extractionCache, everCached,
                   inflight, timers, nextDoc, nextCol, ops>>

removeDocument(prev, id) == SelectSeq(prev, LAMBDA d : d.id # id)

onRemoveDocument(i) ==
    /\ UserMay
    /\ LET d == documents[i]
       IN /\ resultsByDoc' = Without(resultsByDoc, d.id)
          /\ loadingCells' = loadingCells \ {<<d.id, c>> : c \in Range(IdsOf(columns))}
          /\ documents' = removeDocument(documents, d.id)
    /\ ops' = ops + 1
    /\ alerts' = <<>>
    /\ Quiet
    /\ UNCHANGED <<offPage, addColumnForm, columns, customTypes, extractionCache, everCached, inflight, uploads,
                   timers, nextDoc, nextCol>>

\* ----------------------------------------------------------------- columns
\* setMode("custom") and setTypeName(v), v one of the SelectItems rendered from
\* the current customTypes; the dialog may be closed afterwards without submitting
onSelectCustomType(v) ==
    /\ UserMay
    /\ addColumnForm' = [mode |-> "custom", typeName |-> v]
    /\ alerts' = <<>>
    /\ Quiet
    /\ UNCHANGED <<offPage, documents, columns, customTypes, resultsByDoc, loadingCells, extractionCache,
                   everCached, inflight, uploads, timers, nextDoc, nextCol, ops>>

\* the type submit() passes to onSubmit: built from the dialog's own state
ColumnTypes(form) ==
    IF form.mode = "base" THEN {[kind |-> "base", baseType |-> b] : b \in ColumnBaseTypes}
    ELSE IF form.typeName = "" THEN {}
    ELSE {[kind |-> "custom", typeName |-> form.typeName]}

onAddColumn(type, cardinality) ==
    /\ UserMay
    /\ LET created == [id |-> nextCol + 1, name |-> ColumnName,
                       description |-> ColumnDescription, type |-> type,
                       cardinality |-> cardinality]
       IN /\ columns' = Append(columns, created)
          /\ Launch(extractForNewColumn("add", documents, customTypes, created,
                                        resultsByDoc, loadingCells, extractionCache))
    /\ addColumnForm' = EmptyForm
    /\ nextCol' = nextCol + 1
    /\ ops' = ops + 1
    /\ alerts' = <<>>
    /\ UNCHANGED <<offPage, documents, customTypes, extractionCache, everCached, uploads, timers,
                   nextDoc>>

replaceColumn(prev, updated) ==
    [i \in 1..Len(prev) |-> IF prev[i].id = updated.id THEN updated ELSE prev[i]]

onReextract(i, cardinality) ==
    /\ UserMay
    /\ LET updated == [columns[i] EXCEPT !.cardinality = cardinality]
       IN /\ columns' = replaceColumn(columns, updated)
          /\ Launch(extractForNewColumn("reextract", documents, customTypes, updated,
                                        resultsByDoc, loadingCells, extractionCache))
    /\ ops' = ops + 1
    /\ alerts' = <<>>
    /\ UNCHANGED <<offPage, addColumnForm, documents, customTypes, extractionCache, everCached, uploads, timers,
                   nextDoc, nextCol>>

removeColumn(prev, id) == SelectSeq(prev, LAMBDA c : c.id # id)

onRemoveColumn(i) ==
    /\ UserMay
    /\ LET colId == columns[i].id
       IN /\ resultsByDoc' = cleanupResults(resultsByDoc, colId)
          /\ loadingCells' = cleanupLoading(loadingCells, colId)
          /\ columns' = removeColumn(columns, colId)
    /\ ops' = ops + 1
    /\ alerts' = <<>>
    /\ Quiet
    /\ UNCHANGED <<offPage, addColumnForm, documents, customTypes, extractionCache, everCached, inflight, uploads,
                   timers, nextDoc, nextCol>>

\* ------------------------------------------------------------ custom types
NewTypes == {[name |-> n, description |-> "desc", attributes |-> a] :
               n \in TypeNames, a \in AttributeLists}

upsertCustomType(prev, t) ==
    IF \A i \in 1..Len(prev) : prev[i].name # t.name THEN Append(prev, t)
    ELSE LET idx == CHOOSE i \in 1..Len(prev) :
                       prev[i].name = t.name /\ \A j \in 1..(i - 1) : prev[j].name # t.name
         IN [prev EXCEPT ![idx] = t]

onDefineType(t) ==
    /\ UserMay
    /\ customTypes' = upsertCustomType(customTypes, t)
    /\ ops' = ops + 1
    /\ alerts' = <<>>
    /\ Quiet
    /\ UNCHANGED <<offPage, addColumnForm, documents, columns, resultsByDoc, loadingCells, extractionCache, everCached,
                   inflight, uploads, timers, nextDoc, nextCol>>

affectedColumnsOf(cols, originalName) ==
    SelectSeq(cols, LAMBDA c : c.type.kind = "custom" /\ c.type.typeName = originalName)

RECURSIVE cleanupAllResults(_, _)
cleanupAllResults(prev, cols) ==
    IF cols = <<>> THEN prev
    ELSE cleanupAllResults(cleanupResults(prev, Head(cols).id), Tail(cols))

RECURSIVE cleanupAllLoading(_, _)
cleanupAllLoading(prev, cols) ==
    IF cols = <<>> THEN prev
    ELSE cleanupAllLoading(cleanupLoading(prev, Head(cols).id), Tail(cols))

replaceType(prev, updatedType, originalName) ==
    [i \in 1..Len(prev) |-> IF prev[i].name = originalName THEN updatedType ELSE prev[i]]

updatedColumnsOf(affected, updatedType) ==
    [i \in 1..Len(affected) |-> [affected[i] EXCEPT !.type.typeName = updatedType.name]]

replaceColumns(prev, updatedColumns) ==
    [i \in 1..Len(prev) |->
       LET uc == SelectSeq(updatedColumns, LAMBDA c : c.id = prev[i].id)
       IN IF uc = <<>> THEN prev[i] ELSE uc[1]]

\* the closure the setTimeout callback runs in: the updated columns, and the
\* documents and customTypes of the render handleUpdateCustomType was called in
reextractTimer(updatedColumns, docs, types) ==
    [cols |-> updatedColumns, documents |-> docs, customTypes |-> types, started |-> FALSE]

handleUpdateCustomType(i, updatedType) ==
    /\ UserMay
    /\ LET originalName == customTypes[i].name
           affectedColumns == affectedColumnsOf(columns, originalName)
           updatedColumns == updatedColumnsOf(affectedColumns, updatedType)
       IN /\ affectedColumns = <<>> \/ timers = <<>>
          /\ resultsByDoc' = cleanupAllResults(resultsByDoc, affectedColumns)
          /\ loadingCells' = cleanupAllLoading(loadingCells, affectedColumns)
          /\ customTypes' = replaceType(customTypes, updatedType, originalName)
          /\ columns' = replaceColumns(columns, updatedColumns)
          /\ timers' = IF updatedColumns = <<>> THEN timers
                       ELSE Append(timers, reextractTimer(updatedColumns, documents, customTypes))
    /\ ops' = ops + 1
    /\ alerts' = <<>>
    /\ Quiet
    /\ UNCHANGED <<offPage, addColumnForm, documents, extractionCache, everCached, inflight, uploads, nextDoc, nextCol>>

\* one iteration of `for (const col of updatedColumns) void extractForNewColumn(col)`
timerStep ==
    /\ timers # <<>>
    /\ LET t == timers[1]
       IN /\ Launch(extractForNewColumn("redefine", t.documents, t.customTypes, Head(t.cols),
                                        resultsByDoc, loadingCells, extractionCache))
          /\ timers' = IF Len(t.cols) = 1 THEN Tail(timers)
                       ELSE <<[t EXCEPT !.cols = Tail(t.cols), !.started = TRUE]>> \o Tail(timers)
    /\ alerts' = <<>>
    /\ UNCHANGED <<offPage, addColumnForm, documents, columns, customTypes, extractionCache, everCached, uploads,
                   nextDoc, nextCol, ops>>

\* the type name compared with the column's name instead of its typeName
isUsedByName(cols, typeName) == \E c \in Range(cols) : c.name = typeName

isUsed(cols, typeName) ==
    \E c \in Range(cols) : c.type.kind = "custom" /\ c.type.typeName = typeName

\* the alert text without the type name
typeInUseMessageGeneric(typeName) ==
    <<"Cannot remove type because it is currently being used by one or more columns.">>

\* `Cannot remove type "${typeName}" because it is currently being used by one or more columns.`
typeInUseMessage(typeName) ==
    <<"Cannot remove type \"", typeName,
      "\" because it is currently being used by one or more columns.">>

removeType(prev, name) == SelectSeq(prev, LAMBDA t : t.name # name)

handleRemove(typeName) ==
    /\ UserMay
    /\ IF isUsed(columns, typeName)
       THEN /\ alerts' = <<typeInUseMessage(typeName)>>
            /\ customTypes' = customTypes
       ELSE /\ alerts' = <<>>
            /\ customTypes' = removeType(customTypes, typeName)
    /\ ops' = ops + 1
    /\ Quiet
    /\ UNCHANGED <<offPage, addColumnForm, documents, columns, resultsByDoc, loadingCells, extractionCache, everCached,
                   inflight, uploads, timers, nextDoc, nextCol>>

\* ------------------------------------------------------------- cache button
onClearCache ==
    /\ UserMay
    /\ extractionCache' = <<>>
    /\ alerts' = <<<<"Cache cleared">>>>
    /\ ops' = ops + 1
    /\ Quiet
    /\ UNCHANGED <<offPage, addColumnForm, documents, columns, customTypes, resultsByDoc, loadingCells, everCached,
                   inflight, uploads, timers, nextDoc, nextCol>>

\* ------------------------------------------------- the response of a request
\* History kept in the invocations that stay in flight: the responses applied
\* meanwhile to cells they target too, and whether the invocation that got such
\* a response was issued after them.
noteOverlap(rest, i, inv, results) ==
    [j \in 1..Len(rest) |->
       IF Cross(rest[j].docIds, rest[j].colIds) \cap Cross(inv.docIds, inv.colIds) # {}
       THEN [rest[j] EXCEPT !.overlap = Append(@, [results |-> results, issuedLater |-> j < i])]
       ELSE rest[j]]

Outcome(inv, ok, results) == [inv |-> inv, ok |-> ok, results |-> results]

\* the targeted columns are cleared before the response is merged
fetchSucceedsClearingTargets(i, results) ==
    /\ ~Busy
    /\ firstThrowingRow(inflight[i], results) = 0
    /\ LET inv == inflight[i]
           writes == cacheWrites(inv, results)
       IN /\ extractionCache' = applyWrites(extractionCache, writes)
          /\ everCached' = everCached \cup Range(writes)
          /\ resultsByDoc' = mergeExtractionResults(cleanupAllResults(resultsByDoc, inv.cols),
                                                 results)
          /\ loadingCells' = markCellsDone(loadingCells, inv.docIds, inv.colIds)
          /\ lastDone' = <<Outcome(inv, TRUE, results)>>
    /\ inflight' = noteOverlap(RemoveAt(inflight, i), i, inflight[i], results)
    /\ alerts' = <<>>
    /\ lastCall' = <<>>
    /\ UNCHANGED <<offPage, addColumnForm, documents, columns, customTypes, uploads, timers, nextDoc, nextCol, ops>>

fetchSucceeds(i, results) ==
    /\ ~Busy
    /\ firstThrowingRow(inflight[i], results) = 0
    /\ LET inv == inflight[i]
           writes == cacheWrites(inv, results)
       IN /\ extractionCache' = applyWrites(extractionCache, writes)
          /\ everCached' = everCached \cup Range(writes)
          /\ resultsByDoc' = mergeExtractionResults(resultsByDoc, results)
          /\ loadingCells' = markCellsDone(loadingCells, inv.docIds, inv.colIds)
          /\ lastDone' = <<Outcome(inv, TRUE, results)>>
    /\ inflight' = noteOverlap(RemoveAt(inflight, i), i, inflight[i], results)
    /\ alerts' = <<>>
    /\ lastCall' = <<>>
    /\ UNCHANGED <<offPage, addColumnForm, documents, columns, customTypes, uploads, timers, nextDoc, nextCol, ops>>

\* the catch block resets the targeted columns
fetchFailsResetting(i, kind) ==
    /\ ~Busy
    /\ LET inv == inflight[i]
       IN /\ kind # "status" => ~ServerRejects(inv.body[1])
          /\ resultsByDoc' = cleanupAllResults(resultsByDoc, inv.cols)
          /\ loadingCells' = markCellsDone(loadingCells, inv.docIds, inv.colIds)
          /\ lastDone' = <<Outcome(inv, FALSE, <<>>)>>
    /\ inflight' = RemoveAt(inflight, i)
    /\ alerts' = <<<<"Extraction failed">>>>
    /\ lastCall' = <<>>
    /\ UNCHANGED <<offPage, addColumnForm, documents, columns, customTypes, extractionCache, everCached,
                   uploads, timers, nextDoc, nextCol, ops>>

\* the response is read, and the loop that fills the Cache throws at a row
\* whose data is null: the rows before it are cached, nothing is merged
fetchFailsMidway(i, results) ==
    /\ ~Busy
    /\ firstThrowingRow(inflight[i], results) > 0
    /\ LET inv == inflight[i]
           before == SubSeq(results, 1, firstThrowingRow(inv, results) - 1)
           writes == cacheWrites(inv, before)
       IN /\ extractionCache' = applyWrites(extractionCache, writes)
          /\ everCached' = everCached \cup Range(writes)
          /\ loadingCells' = markCellsDone(loadingCells, inv.docIds, inv.colIds)
          /\ lastDone' = <<Outcome(inv, FALSE, results)>>
    /\ inflight' = RemoveAt(inflight, i)
    /\ alerts' = <<<<"Extraction failed">>>>
    /\ lastCall' = <<>>
    /\ UNCHANGED <<offPage, addColumnForm, documents, columns, customTypes, resultsByDoc,
                   uploads, timers, nextDoc, nextCol, ops>>

fetchFails(i, kind) ==
    /\ ~Busy
    /\ LET inv == inflight[i]
       IN /\ kind # "status" => ~ServerRejects(inv.body[1])
          /\ loadingCells' = markCellsDone(loadingCells, inv.docIds, inv.colIds)
          /\ lastDone' = <<Outcome(inv, FALSE, <<>>)>>
    /\ inflight' = RemoveAt(inflight, i)
    /\ alerts' = <<<<"Extraction failed">>>>
    /\ lastCall' = <<>>
    /\ UNCHANGED <<offPage, addColumnForm, documents, columns, customTypes, resultsByDoc, extractionCache, everCached,
                   uploads, timers, nextDoc, nextCol, ops>>

\* ------------------------------------------------------------ specification
Next ==
    \/ \E i \in 1..Len(inflight) :
          /\ ~ServerRejects(inflight[i].body[1])
          /\ \E results \in ServerResults(inflight[i].body[1]) : fetchSucceeds(i, results)
    \/ \E i \in 1..Len(inflight), kind \in FailureKinds : fetchFails(i, kind)
    \/ \E i \in 1..Len(inflight) :
          /\ ~ServerRejects(inflight[i].body[1])
          /\ \E results \in ServerResults(inflight[i].body[1]) : fetchFailsMidway(i, results)
    \/ \E k \in 1..MaxFiles : handleFilesSelected(k)
    \/ \E i \in 1..Len(uploads) : \E texts \in [1..Len(uploads[i].clientDocs) -> Texts] :
          uploadSucceeds(i, texts)
    \/ \E i \in 1..Len(uploads) : uploadFails(i)
    \/ \E i \in 1..Len(documents) : onRemoveDocument(i)
    \/ \E v \in TypeNamesOf(customTypes) : onSelectCustomType(v)
    \/ \E type \in ColumnTypes(addColumnForm), cardinality \in NewColumnCardinalities :
          onAddColumn(type, cardinality)
    \/ \E i \in 1..Len(columns), cardinality \in Cardinalities : onReextract(i, cardinality)
    \/ \E i \in 1..Len(columns) : onRemoveColumn(i)
    \/ \E t \in NewTypes : onDefineType(t)
    \/ \E i \in 1..Len(customTypes), t \in NewTypes : handleUpdateCustomType(i, t)
    \/ timerStep
    \/ \E n \in TypeNamesOf(customTypes) : handleRemove(n)
    \/ onClearCache

Spec == Init /\ [][Next]_vars

\* ------------------------------------ uploads and column additions, resolving
\* The interleavings of document uploads and column additions in which every
\* upload and every request resolves, and resolves successfully unless the
\* route's own validation answers 400.
uploadResolves ==
    \E i \in 1..Len(uploads) : \E texts \in [1..Len(uploads[i].clientDocs) -> Texts] :
        uploadSucceeds(i, texts)

requestResolves ==
    \E i \in 1..Len(inflight) :
        IF ServerRejects(inflight[i].body[1]) THEN fetchFails(i, "status")
        ELSE \E results \in ServerResults(inflight[i].body[1]) : fetchSucceeds(i, results)

LiveNext ==
    \/ \E k \in 1..MaxFiles : handleFilesSelected(k)
    \/ \E type \in ColumnTypes(EmptyForm), cardinality \in NewColumnCardinalities :
          addColumnForm = EmptyForm /\ onAddColumn(type, cardinality)
    \/ uploadResolves
    \/ requestResolves

LiveSpec == Init /\ [][LiveNext]_vars /\ WF_vars(uploadResolves) /\ WF_vars(requestResolves)

\* ============================================================ the route
\* POST /api/extractor with a JSON body, one request at a time, from the
\* request the page sent to the response the page receives.

\* RequestSchema.parse(json) does not throw
RequestSchemaAccepts(body) ==
    /\ body.documents # <<>>
    /\ \A d \in Range(body.documents) : d.id # 0 /\ d.name # "" /\ d.text # ""
    /\ body.columns # <<>>
    /\ \A c \in Range(body.columns) :
          /\ c.id # 0 /\ c.name # "" /\ c.description # ""
          /\ c.type.kind = "custom" => c.type.typeName # ""
    /\ \A t \in Range(body.customTypes) :
          /\ t.name # "" /\ t.description # "" /\ t.attributes # <<>>
          /\ \A a \in Range(t.attributes) : a.name # "" /\ a.description # ""

\* A JSON schema is a record; its "type" is written as the sequence of the type
\* names it allows, "object" as <<"object">>.
\* withDescription: the description is added when it is not empty
withDescription(schema, description) ==
    IF description # "" THEN Spread(schema, [description |-> description]) ELSE schema

\* every base type maps to the nullable string
baseTypeToJsonSchemaAsText(baseType, description) ==
    withDescription([type |-> <<"string", "null">>], description)

baseTypeToJsonSchema(baseType, description) ==
    CASE baseType = "text" -> withDescription([type |-> <<"string", "null">>], description)
      [] baseType = "number" -> withDescription([type |-> <<"number", "null">>], description)
      [] baseType = "date" ->
           withDescription([type |-> <<"string", "null">>, format |-> "date"], description)
      [] baseType = "boolean" -> withDescription([type |-> <<"boolean", "null">>], description)

\* properties[key] = schema for each entry in turn: a later entry of the same key
\* replaces the earlier one
RECURSIVE properties(_)
properties(entries) ==
    IF entries = <<>> THEN [k \in {} |-> [type |-> <<>>]]
    ELSE LET last == entries[Len(entries)]
         IN Put(properties(SubSeq(entries, 1, Len(entries) - 1)), last.key, last.schema)

\* Object.keys(properties)
keysOf(entries) == Dedupe([i \in 1..Len(entries) |-> entries[i].key])

threw(message) == [threw |-> TRUE, message |-> message]
returned(schema) == [threw |-> FALSE, schema |-> schema]

\* an unknown type name gives the schema of an object without attributes
buildCustomTypeSchemaLenient(typeName, types) ==
    LET found == SelectSeq(types, LAMBDA ct : ct.name = typeName)
    IN IF found = <<>>
       THEN returned([type |-> <<"object">>, description |-> "",
                      additionalProperties |-> FALSE,
                      properties |-> properties(<<>>), required |-> <<>>])
       ELSE LET t == found[1]
                entries == [i \in 1..Len(t.attributes) |->
                              [key |-> t.attributes[i].name,
                               schema |-> baseTypeToJsonSchema(t.attributes[i].type,
                                                               t.attributes[i].description)]]
            IN returned([type |-> <<"object">>, description |-> t.description,
                         additionalProperties |-> FALSE,
                         properties |-> properties(entries), required |-> keysOf(entries)])

buildCustomTypeSchema(typeName, types) ==
    LET found == SelectSeq(types, LAMBDA ct : ct.name = typeName)
    IN IF found = <<>> THEN threw(<<"Unknown custom type: ", typeName>>)
       ELSE LET t == found[1]
                entries == [i \in 1..Len(t.attributes) |->
                              [key |-> t.attributes[i].name,
                               schema |-> baseTypeToJsonSchema(t.attributes[i].type,
                                                               t.attributes[i].description)]]
            IN returned([type |-> <<"object">>, description |-> t.description,
                         additionalProperties |-> FALSE,
                         properties |-> properties(entries), required |-> keysOf(entries)])

\* the schema of one column: the loop body of buildExtractionResultSchema
columnSchema(col, types) ==
    LET inner == IF col.type.kind = "base"
                 THEN returned(baseTypeToJsonSchema(col.type.baseType, col.description))
                 ELSE buildCustomTypeSchema(col.type.typeName, types)
    IN IF inner.threw THEN inner
       ELSE IF col.cardinality = "many"
       THEN returned([type |-> <<"array">>, description |-> col.description,
                      items |-> inner.schema])
       ELSE inner

buildExtractionResultSchema(cols, types) ==
    LET each == [i \in 1..Len(cols) |-> columnSchema(cols[i], types)]
        throwing == {i \in 1..Len(cols) : each[i].threw}
    IN IF throwing # {} THEN each[CHOOSE i \in throwing : \A j \in throwing : i <= j]
       ELSE LET entries == [i \in 1..Len(cols) |-> [key |-> cols[i].id,
                                                     schema |-> each[i].schema]]
            IN returned([type |-> <<"object">>, additionalProperties |-> FALSE,
                         properties |-> properties(entries), required |-> keysOf(entries)])

\* new Response(message, { status: 400 }) and new Response(JSON.stringify({ results }))
errorResponse(message) == [status |-> 400, message |-> message, results |-> <<>>]
resultsResponse(results) == [status |-> 200, message |-> <<>>, results |-> results]

\* the promise of one document's completion
Pending == [state |-> "pending", data |-> EmptyRow, isNull |-> FALSE]

\* Promise.all over the documents' promises: rejected as soon as one is, fulfilled
\* with the rows in the order of the documents when all are
rowsOf(body, calls) ==
    [i \in 1..Len(calls) |-> [documentId |-> body.documents[i].id, data |-> calls[i].data,
                              isNull |-> calls[i].isNull]]

\* the rows computed so far are returned although a completion failed
settledResponseKeepingRows(body, calls) ==
    LET done == {i \in 1..Len(calls) : calls[i].state # "pending"}
        kept == SelectSeq(rowsOf(body, calls), LAMBDA r :
                    \E i \in done : calls[i].state = "returned" /\ body.documents[i].id = r.documentId)
    IN IF done = 1..Len(calls) THEN <<resultsResponse(kept)>> ELSE <<>>

settledResponse(body, calls) ==
    IF \E i \in 1..Len(calls) : calls[i].state = "threw"
    THEN <<errorResponse(<<"completion failed">>)>>
    ELSE IF \A i \in 1..Len(calls) : calls[i].state = "returned"
    THEN <<resultsResponse(rowsOf(body, calls))>>
    ELSE <<>>

\* RequestSchema.parse, getAzureClient and the deployment check
parseRequest ==
    /\ post.pc = "received"
    /\ post' = IF ~RequestSchemaAccepts(post.body)
               THEN [post EXCEPT !.pc = "responded",
                                 !.response = <<errorResponse(<<"invalid request">>)>>]
               ELSE IF ~post.configured
               THEN [post EXCEPT !.pc = "responded",
                       !.response = <<errorResponse(<<"Missing Azure OpenAI environment variables">>)>>]
               ELSE [post EXCEPT !.pc = "parsed"]
    /\ UNCHANGED <<hashed, store>>

\* buildExtractionResultSchema, then documents.map(async ...): every document's
\* completion is requested before the first await returns
compileAndCall ==
    /\ post.pc = "parsed"
    /\ LET built == buildExtractionResultSchema(post.body.columns, post.body.customTypes)
       IN post' = IF built.threw
                  THEN [post EXCEPT !.pc = "responded",
                                    !.response = <<errorResponse(built.message)>>]
                  ELSE [post EXCEPT !.pc = "calling", !.schema = <<built.schema>>,
                                    !.calls = [i \in 1..Len(post.body.documents) |-> Pending]]
    /\ UNCHANGED <<hashed, store>>

settle(calls) ==
    LET response == settledResponse(post.body, calls)
    IN post' = [post EXCEPT !.calls = calls, !.response = response,
                            !.pc = IF response = <<>> THEN "calling" ELSE "responded"]

\* client.chat.completions.create resolves for document i and its content is parsed
completionReturns(i, row) ==
    /\ post.pc = "calling"
    /\ post.calls[i].state = "pending"
    /\ settle([post.calls EXCEPT ![i] = [state |-> "returned", data |-> row.data,
                                         isNull |-> row.isNull]])
    /\ UNCHANGED <<hashed, store>>

\* client.chat.completions.create rejects for document i
completionThrows(i) ==
    /\ post.pc = "calling"
    /\ post.calls[i].state = "pending"
    /\ settle([post.calls EXCEPT ![i] = [state |-> "threw", data |-> EmptyRow,
                                         isNull |-> FALSE]])
    /\ UNCHANGED <<hashed, store>>

pageVars == <<documents, columns, customTypes, resultsByDoc, loadingCells, extractionCache,
              everCached, inflight, uploads, timers, alerts, lastCall, lastDone,
              nextDoc, nextCol, ops, addColumnForm>>

\* the page receives the response: res.ok, res.json() and what follows
deliver ==
    /\ post.pc = "responded"
    /\ inflight # <<>>
    /\ IF post.response[1].status = 200
       THEN \/ fetchSucceeds(1, post.response[1].results)
            \/ fetchFailsMidway(1, post.response[1].results)
       ELSE fetchFails(1, "status")

\* The requests handled: what extractForNewColumn (one column) or
\* extractForNewDocuments (two columns) sends for these documents, columns and
\* custom types when nothing is cached.
RouteDocuments ==
    {<<[id |-> 1, name |-> "f", text |-> FileText]>>,
     <<[id |-> 1, name |-> "f", text |-> FileText], [id |-> 2, name |-> "f", text |-> FileText]>>,
     <<[id |-> 1, name |-> "f", text |-> FileText], [id |-> 2, name |-> "f", text |-> ""]>>}
RouteColumnTypes ==
    {[kind |-> "base", baseType |-> b] : b \in BaseTypes}
    \cup {[kind |-> "custom", typeName |-> n] : n \in TypeNames}
RouteColumn(id) ==
    {[id |-> id, name |-> ColumnName, description |-> ColumnDescription, type |-> t,
      cardinality |-> c] : t \in RouteColumnTypes, c \in Cardinalities}
RouteColumns ==
    {<<c>> : c \in RouteColumn(1)} \cup {<<c1, c2>> : c1 \in RouteColumn(1), c2 \in RouteColumn(2)}
RouteTypes ==
    {<<>>,
     <<[name |-> "Person", description |-> "desc",
        attributes |-> <<Attr("name"), [name |-> "born", description |-> "desc", type |-> "date"],
                         [name |-> "age", description |-> "desc", type |-> "number"]>>]>>}

RouteInit ==
    /\ documents \in RouteDocuments
    /\ columns \in RouteColumns
    /\ customTypes \in RouteTypes
    /\ LET start == extractStart(IF Len(columns) = 1 THEN "column" ELSE "documents", "add",
                                 documents, columns, customTypes, <<>>, {}, <<>>)
       IN /\ resultsByDoc = start.results
          /\ loadingCells = start.loading
          /\ inflight = <<start.call>>
          /\ lastCall = <<start.call>>
          /\ \E configured \in BOOLEAN :
                post = [pc |-> "received", body |-> start.call.body[1],
                        configured |-> configured, schema |-> <<>>, calls |-> <<>>,
                        response |-> <<>>]
    /\ extractionCache = <<>>
    /\ everCached = {}
    /\ uploads = <<>>
    /\ timers = <<>>
    /\ alerts = <<>>
    /\ lastDone = <<>>
    /\ nextDoc = Len(documents)
    /\ nextCol = Len(columns)
    /\ ops = 0
    /\ addColumnForm = EmptyForm
    /\ hashed = NoHash
    /\ store = NoStore

RouteNext ==
    \/ parseRequest /\ UNCHANGED pageVars
    \/ compileAndCall /\ UNCHANGED pageVars
    \/ \E i \in 1..Len(post.calls) :
          \E row \in RowDatas(Range(IdsOf(post.body.columns))) :
              completionReturns(i, row) /\ UNCHANGED pageVars
    \/ \E i \in 1..Len(post.calls) : completionThrows(i) /\ UNCHANGED pageVars
    \/ deliver

RouteSpec == RouteInit /\ [][RouteNext]_vars

\* ================================================= the fingerprint, in characters
\* createExtractionCacheKey and simpleHash computed as the code computes them.  A
\* string is the sequence of its characters; the texts used hold no character
\* that JSON.stringify escapes.

\* str.charCodeAt(i) for the letters, the digits and the punctuation that occur
charCodeAt ==
    " " :> 32 @@ "\"" :> 34 @@ "," :> 44 @@ "-" :> 45 @@ "." :> 46 @@ "0" :> 48 @@
    "1" :> 49 @@ "2" :> 50 @@ "3" :> 51 @@ "4" :> 52 @@ "5" :> 53 @@ "6" :> 54 @@
    "7" :> 55 @@ "8" :> 56 @@ "9" :> 57 @@ ":" :> 58 @@ "A" :> 65 @@ "B" :> 66 @@
    "C" :> 67 @@ "D" :> 68 @@ "E" :> 69 @@ "F" :> 70 @@ "G" :> 71 @@ "H" :> 72 @@
    "I" :> 73 @@ "J" :> 74 @@ "K" :> 75 @@ "L" :> 76 @@ "M" :> 77 @@ "N" :> 78 @@
    "O" :> 79 @@ "P" :> 80 @@ "Q" :> 81 @@ "R" :> 82 @@ "S" :> 83 @@ "T" :> 84 @@
    "U" :> 85 @@ "V" :> 86 @@ "W" :> 87 @@ "X" :> 88 @@ "Y" :> 89 @@ "Z" :> 90 @@
    "[" :> 91 @@ "]" :> 93 @@ "_" :> 95 @@ "a" :> 97 @@ "b" :> 98 @@ "c" :> 99 @@
    "d" :> 100 @@ "e" :> 101 @@ "f" :> 102 @@ "g" :> 103 @@ "h" :> 104 @@ "i" :> 105 @@
    "j" :> 106 @@ "k" :> 107 @@ "l" :> 108 @@ "m" :> 109 @@ "n" :> 110 @@ "o" :> 111 @@
    "p" :> 112 @@ "q" :> 113 @@ "r" :> 114 @@ "s" :> 115 @@ "t" :> 116 @@ "u" :> 117 @@
    "v" :> 118 @@ "w" :> 119 @@ "x" :> 120 @@ "y" :> 121 @@ "z" :> 122 @@ "{" :> 123 @@
    "|" :> 124 @@ "}" :> 125

\* JSON.stringify of a string, an object and an array
jsonString(str) == <<"\"">> \o str \o <<"\"">>
RECURSIVE joined(_, _)
joined(parts, sep) ==
    IF parts = <<>> THEN <<>>
    ELSE IF Len(parts) = 1 THEN parts[1]
    ELSE parts[1] \o sep \o joined(Tail(parts), sep)
member(key, json) == jsonString(key) \o <<":">> \o json
jsonObject(members) == <<"{">> \o joined(members, <<",">>) \o <<"}">>
jsonArray(items) == <<"[">> \o joined(items, <<",">>) \o <<"]">>

\* a column as AddColumnDialog.submit and onSubmit build it: { name, description,
\* cardinality, type, id }
jsonColumnType(type) ==
    IF type.kind = <<"b", "a", "s", "e">>
    THEN jsonObject(<<member(<<"k", "i", "n", "d">>, jsonString(type.kind)),
                      member(<<"b", "a", "s", "e", "T", "y", "p", "e">>, jsonString(type.baseType))>>)
    ELSE jsonObject(<<member(<<"k", "i", "n", "d">>, jsonString(type.kind)),
                      member(<<"t", "y", "p", "e", "N", "a", "m", "e">>, jsonString(type.typeName))>>)
jsonColumn(column) ==
    jsonObject(<<member(<<"n", "a", "m", "e">>, jsonString(column.name)),
                 member(<<"d", "e", "s", "c", "r", "i", "p", "t", "i", "o", "n">>, jsonString(column.description)),
                 member(<<"c", "a", "r", "d", "i", "n", "a", "l", "i", "t", "y">>, jsonString(column.cardinality)),
                 member(<<"t", "y", "p", "e">>, jsonColumnType(column.type)),
                 member(<<"i", "d">>, jsonString(column.id))>>)

\* a custom type as DefineTypeDialog.submit builds it: { name, description,
\* attributes }, each attribute { name, description, type }
jsonAttribute(a) ==
    jsonObject(<<member(<<"n", "a", "m", "e">>, jsonString(a.name)),
                 member(<<"d", "e", "s", "c", "r", "i", "p", "t", "i", "o", "n">>, jsonString(a.description)),
                 member(<<"t", "y", "p", "e">>, jsonString(a.type))>>)
jsonCustomType(t) ==
    jsonObject(<<member(<<"n", "a", "m", "e">>, jsonString(t.name)),
                 member(<<"d", "e", "s", "c", "r", "i", "p", "t", "i", "o", "n">>, jsonString(t.description)),
                 member(<<"a", "t", "t", "r", "i", "b", "u", "t", "e", "s">>,
                        jsonArray([i \in 1..Len(t.attributes) |-> jsonAttribute(t.attributes[i])]))>>)
jsonCustomTypes(types) == jsonArray([i \in 1..Len(types) |-> jsonCustomType(types[i])])

\* `${docId}|${colId}|${docText}|${columnStr}|${customTypesStr}`
inputStr(docId, colId, docText, column, types) ==
    joined(<<docId, colId, docText, jsonColumn(column), jsonCustomTypes(types)>>, <<"|">>)

\* A 32-bit integer is kept as its two 16-bit halves, [hi, lo], of its
\* two-complement form.
Half == 65536
\* hash = ((hash << 5) - hash) + char; hash = hash & hash: 31 * hash + char,
\* wrapped to 32 bits
hashStep(hash, char) ==
    LET lo == 31 * hash.lo + char
        hi == 31 * hash.hi + (lo \div Half)
    IN [hi |-> hi % Half, lo |-> lo % Half]

\* the loop of simpleHash over str[from..to], starting from hash: the first half
\* of the characters, then the second half
RECURSIVE hashLoop(_, _, _, _)
hashLoop(hash, str, from, to) ==
    IF from > to THEN hash
    ELSE IF from = to THEN hashStep(hash, charCodeAt[str[from]])
    ELSE LET mid == (from + to) \div 2
             half == hashLoop(hash, str, from, mid)
         IN IF half.hi < Half THEN hashLoop(half, str, mid + 1, to) ELSE half

\* Math.abs(hash): the magnitude of the signed value, 2^32 - hash when the sign
\* bit is set
abs(hash) ==
    IF hash.hi < Half \div 2 THEN hash
    ELSE IF hash.lo = 0 THEN [hi |-> Half - hash.hi, lo |-> 0]
    ELSE [hi |-> Half - 1 - hash.hi, lo |-> Half - hash.lo]

\* Number.prototype.toString(36)
Digits36 == <<"0", "1", "2", "3", "4", "5", "6", "7", "8", "9", "a", "b", "c", "d", "e", "f", "g", "h", "i", "j", "k", "l", "m", "n", "o", "p", "q", "r", "s", "t", "u", "v", "w", "x", "y", "z">>
RECURSIVE toString36(_)
toString36(n) ==
    LET rest == (n.hi % 36) * Half + n.lo
        quotient == [hi |-> n.hi \div 36, lo |-> rest \div 36]
        digit == <<Digits36[(rest % 36) + 1]>>
    IN IF quotient.hi = 0 /\ quotient.lo = 0 THEN digit
       ELSE toString36(quotient) \o digit

simpleHash(str) == toString36(abs(hashLoop([hi |-> 0, lo |-> 0], str, 1, Len(str))))

createExtractionCacheKeyOfChars(docId, colId, docText, column, types) ==
    simpleHash(inputStr(docId, colId, docText, column, types))

\* The inputs hashed: one document id and one column id, with the texts,
\* column definitions and custom-type sets a session can give them.
HashDocId == <<"d", "o", "c", "_", "k", "3", "x", "9", "q", "2", "a">>
HashColId == <<"c", "o", "l", "_", "p", "7", "m", "1", "z", "4", "c">>
HashTexts == {<<>>, <<"t">>, <<"A", "a">>, <<"B", "B">>}
HashColumns ==
    {[name |-> <<"N", "a", "m", "e">>, description |-> <<"d", "e", "s", "c">>, cardinality |-> c,
      type |-> [kind |-> <<"b", "a", "s", "e">>, baseType |-> <<"t", "e", "x", "t">>], id |-> HashColId] :
        c \in {<<"o", "n", "e">>, <<"m", "a", "n", "y">>}}
HashTypes ==
    {<<>>,
     <<[name |-> <<"P", "e", "r", "s", "o", "n">>, description |-> <<"d", "e", "s", "c">>,
        attributes |-> <<[name |-> <<"n", "a", "m", "e">>, description |-> <<"d", "e", "s", "c">>,
                          type |-> <<"t", "e", "x", "t">>]>>]>>}
HashInputs ==
    [docId : {HashDocId}, colId : {HashColId}, docText : HashTexts, column : HashColumns,
     customTypes : HashTypes]

keyOfInput(input) ==
    createExtractionCacheKeyOfChars(input.docId, input.colId, input.docText, input.column,
                                    input.customTypes)

\* createExtractionCacheKey is called on the two inputs
createKeys ==
    /\ hashed.keys = <<>>
    /\ hashed' = [hashed EXCEPT !.keys = <<keyOfInput(hashed.a), keyOfInput(hashed.b)>>]
    /\ UNCHANGED <<pageVars, post, store>>

\* the page with nothing in it and nothing going on
EmptyPage ==
    /\ documents = <<>>
    /\ columns = <<>>
    /\ customTypes = <<>>
    /\ resultsByDoc = <<>>
    /\ loadingCells = {}
    /\ extractionCache = <<>>
    /\ everCached = {}
    /\ inflight = <<>>
    /\ uploads = <<>>
    /\ timers = <<>>
    /\ alerts = <<>>
    /\ lastCall = <<>>
    /\ lastDone = <<>>
    /\ nextDoc = 0
    /\ nextCol = 0
    /\ ops = 0
    /\ addColumnForm = EmptyForm

HashInit ==
    /\ EmptyPage
    /\ post = NoPost
    /\ store = NoStore
    /\ hashed \in [a : HashInputs, b : HashInputs, keys : {<<>>}]

HashNext == createKeys

HashSpec == HashInit /\ [][HashNext]_vars

\* ------------------------------------------------- the Cache's backing store
\* window.localStorage as createNamespacedStorage finds it: missing (getLocalStorage
\* gives null), working, throwing on every access, or readable while setItem
\* throws (quota)
Storages == {"null", "works", "throws", "full"}

\* a value handed to set or returned by get: a row, or null
Null == [data |-> EmptyRow, isNull |-> TRUE]
RowValue(row) == [data |-> row, isNull |-> FALSE]

\* what getItem gives: null for a missing key ("none"), or the stored string,
\* which is empty, the JSON text of a value ("json"), or a text that is not JSON
\* ("garbage")
NoItem == [form |-> "none", value |-> Null]
JSONstringify(value) == [form |-> "json", value |-> value]

raises == [raised |-> TRUE, value |-> Null]
yields(v) == [raised |-> FALSE, value |-> v]

\* JSON.parse(s): the value of a JSON text, a SyntaxError otherwise
JSONparse(s) == IF s.form = "json" THEN yields(s.value) ELSE raises

\* storage?.getItem(fullKey(key))
getItem(storage, items, key) ==
    IF storage = "throws" THEN raises
    ELSE IF storage = "null" THEN yields(NoItem)
    ELSE yields(IF key \in DOMAIN items THEN items[key] ELSE NoItem)

\* get without its try/catch: what getItem or JSON.parse throws reaches the caller
getWithoutCatch(storage, items, key, fallback) ==
    LET s == getItem(storage, items, key)
    IN IF s.raised THEN raises
       ELSE IF s.value.form \in {"none", "empty"} THEN yields(fallback)
       ELSE JSONparse(s.value)

get(storage, items, key, fallback) ==
    LET s == getItem(storage, items, key)
    IN IF s.raised THEN yields(fallback)
       ELSE IF s.value.form \in {"none", "empty"} THEN yields(fallback)
       ELSE LET parsed == JSONparse(s.value)
            IN IF parsed.raised THEN yields(fallback) ELSE parsed

\* storage?.setItem(fullKey(key), text)
setItem(storage, items, key, text) ==
    IF storage \in {"throws", "full"} THEN [raised |-> TRUE, items |-> items]
    ELSE IF storage = "null" THEN [raised |-> FALSE, items |-> items]
    ELSE [raised |-> FALSE, items |-> Put(items, key, text)]

\* set: what setItem throws is caught and ignored; `failed` records that it threw
set(storage, items, key, value) ==
    LET w == setItem(storage, items, key, JSONstringify(value))
    IN [items |-> w.items, failed |-> w.raised]

\* the Cache as get reads the store: the keys whose get gives a row
cacheView(storage, items) ==
    LET hit == {k \in DOMAIN items : ~get(storage, items, k, Null).value.isNull}
    IN [k \in hit |-> get(storage, items, k, Null).value.data]

\* one document and the column that was just added for it
PersistDoc == [id |-> 1, name |-> "f", text |-> FileText]
PersistColumn ==
    [id |-> 1, name |-> ColumnName, description |-> ColumnDescription,
     type |-> [kind |-> "base", baseType |-> "text"], cardinality |-> "one"]
PersistKey == KeyOf(PersistDoc, PersistColumn, <<>>)

\* what an earlier session can have left under the key
StoredItems ==
    {[form |-> f, value |-> Null] : f \in {"empty", "garbage"}}
    \cup {JSONstringify(Null)}
    \cup {JSONstringify(RowValue([c \in {PersistColumn.id} |-> v])) : v \in Vals}
StoreContents == {<<>>} \cup {[k \in {PersistKey} |-> t] : t \in StoredItems}

\* extractForNewColumn up to its request: the cell is marked loading and the
\* Cache is read; a hit is merged and the cell is done, a miss is requested
probeCache ==
    /\ store.kind = "localStorage"
    /\ store.pc = "start"
    /\ LET docIds == <<PersistDoc.id>>
           colIds == <<PersistColumn.id>>
           r == get(store.storage, store.items, PersistKey, Null)
           at == [storage |-> store.storage, item |-> IF PersistKey \in DOMAIN store.items THEN store.items[PersistKey]
                              ELSE NoItem]
       IN IF r.raised
          THEN /\ store' = [store EXCEPT !.pc = "aborted", !.raised = TRUE, !.at = at]
               /\ loadingCells' = markCellsLoading(loadingCells, docIds, colIds)
               /\ UNCHANGED resultsByDoc
          ELSE IF ~r.value.isNull
          THEN /\ store' = [store EXCEPT !.pc = "done", !.cached = r.value, !.at = at]
               /\ resultsByDoc' =
                     mergeExtractionResults(resultsByDoc,
                        <<[documentId |-> PersistDoc.id, data |-> r.value.data]>>)
               /\ loadingCells' =
                     markCellsDone(markCellsLoading(loadingCells, docIds, colIds), docIds, colIds)
          ELSE /\ store' = [store EXCEPT !.pc = "requested", !.cached = r.value, !.at = at]
               /\ loadingCells' = markCellsLoading(loadingCells, docIds, colIds)
               /\ UNCHANGED resultsByDoc
    /\ UNCHANGED <<documents, columns, customTypes, extractionCache, everCached, inflight,
                   uploads, timers, alerts, lastCall, lastDone, nextDoc, nextCol, ops,
                   addColumnForm, post, hashed>>

\* the response is ok: its row is written to the Cache and merged
responseArrives(value) ==
    /\ store.kind = "localStorage"
    /\ store.pc = "requested"
    /\ LET w == set(store.storage, store.items, PersistKey, value)
       IN /\ store' = [store EXCEPT !.pc = "done", !.items = w.items,
                                    !.setFailed = w.failed, !.response = <<value>>]
          /\ extractionCache' = cacheView(store.storage, w.items)
          /\ resultsByDoc' =
                mergeExtractionResults(resultsByDoc,
                   <<[documentId |-> PersistDoc.id, data |-> value.data]>>)
    /\ loadingCells' = markCellsDone(loadingCells, <<PersistDoc.id>>, <<PersistColumn.id>>)
    /\ UNCHANGED <<documents, columns, customTypes, everCached, inflight, uploads, timers,
                   alerts, lastCall, lastDone, nextDoc, nextCol, ops, addColumnForm, post, hashed>>

\* the request fails: nothing is written
requestFails ==
    /\ store.kind = "localStorage"
    /\ store.pc = "requested"
    /\ store' = [store EXCEPT !.pc = "failed"]
    /\ alerts' = <<<<"Extraction failed">>>>
    /\ loadingCells' = markCellsDone(loadingCells, <<PersistDoc.id>>, <<PersistColumn.id>>)
    /\ UNCHANGED <<documents, columns, customTypes, resultsByDoc, extractionCache, everCached,
                   inflight, uploads, timers, lastCall, lastDone, nextDoc, nextCol, ops,
                   addColumnForm, post, hashed>>

PersistInit ==
    /\ documents = <<PersistDoc>>
    /\ columns = <<PersistColumn>>
    /\ customTypes = <<>>
    /\ resultsByDoc = <<>>
    /\ loadingCells = {}
    /\ everCached = {}
    /\ inflight = <<>>
    /\ uploads = <<>>
    /\ timers = <<>>
    /\ alerts = <<>>
    /\ lastCall = <<>>
    /\ lastDone = <<>>
    /\ nextDoc = 1
    /\ nextCol = 1
    /\ ops = 0
    /\ addColumnForm = EmptyForm
    /\ post = NoPost
    /\ hashed = NoHash
    /\ \E storage \in Storages, items \in StoreContents :
          /\ store = [kind |-> "localStorage", storage |-> storage, items |-> items,
                      pc |-> "start", cached |-> Null, raised |-> FALSE, setFailed |-> FALSE,
                      at |-> [storage |-> storage, item |-> NoItem], response |-> <<>>]
          /\ extractionCache = cacheView(storage, items)

PersistNext ==
    \/ probeCache
    \/ \E value \in RowDatas({PersistColumn.id}) : responseArrives(value)
    \/ requestFails

PersistSpec == PersistInit /\ [][PersistNext]_vars

\* ============================================================== claims
CellsOf(inv) == Cross(inv.docIds, inv.colIds)
Failed == lastDone # <<>> /\ ~lastDone[1].ok
Succeeded == lastDone # <<>> /\ lastDone[1].ok
HasValue(matrix, d, c) == d \in DOMAIN matrix /\ c \in DOMAIN matrix[d]
NoCellsIn(matrix, loading, colId) ==
    /\ \A d \in DOMAIN matrix : colId \notin DOMAIN matrix[d]
    /\ \A k \in loading : k[2] # colId
CurrentKeys(d, c) ==
    {KeyOf(doc, col, customTypes) : doc \in {x \in Range(documents) : x.id = d},
                                     col \in {x \in Range(columns) : x.id = c}}

\* C1: when the request of an extraction invocation fails, the step that handles
\* the failure leaves the Matrix as it was, raises exactly one alert, and issues
\* no further request (nothing is started, the invocation leaves the in-flight set).
C1_FailureLeavesMatrix ==
    [][(lastDone' # <<>> /\ ~lastDone'[1].ok) =>
          /\ resultsByDoc' = resultsByDoc
          /\ alerts' = <<<<"Extraction failed">>>>
          /\ lastCall' = <<>>
          /\ Len(inflight') = Len(inflight) - 1]_vars

C1_Witness ==
    /\ Failed
    /\ \E d \in DOMAIN resultsByDoc : DOMAIN resultsByDoc[d] # {}

\* C2: the loading flag of every targeted pair is set when the request is issued,
\* and on every exit path (cache hits only, success, failure) every targeted pair
\* is out of the loading set when the invocation returns.
C2_LoadingScoped ==
    /\ \A i \in 1..Len(lastCall) :
          IF lastCall[i].body # <<>> THEN CellsOf(lastCall[i]) \subseteq loadingCells
          ELSE CellsOf(lastCall[i]) \cap loadingCells = {}
    /\ lastDone # <<>> => CellsOf(lastDone[1].inv) \cap loadingCells = {}

C2_Witness ==
    /\ lastDone # <<>>
    /\ CellsOf(lastDone[1].inv) # {}
    /\ \E j \in 1..Len(inflight) : CellsOf(inflight[j]) \cap CellsOf(lastDone[1].inv) # {}

C4_CleanWhenReextractionStarts ==
    timers # <<>> => NoCellsIn(resultsByDoc, loadingCells, Head(timers[1].cols).id)

\* C4 amended: when handleUpdateCustomType returns, no dependent column has a
\* Matrix cell or a loading entry; until the re-extraction starts such a cell
\* or entry appears only through the response of an extraction already in
\* flight or through another handler (an upload or an extraction started
\* meanwhile).
C4_CleanAfterRedefinition ==
    [][/\ (timers = <<>> /\ timers' # <<>>) =>
              \A c \in Range(timers'[1].cols) : NoCellsIn(resultsByDoc', loadingCells', c.id)
       /\ (timers # <<>> /\ timers' = timers) =>
              \A c \in Range(timers[1].cols) :
                  (NoCellsIn(resultsByDoc, loadingCells, c.id)
                     /\ ~NoCellsIn(resultsByDoc', loadingCells', c.id))
                  => (lastDone' # <<>> \/ lastCall' # <<>> \/ uploads' # uploads)]_vars

C4_Witness ==
    /\ timers # <<>>
    /\ ~timers[1].started
    /\ NoCellsIn(resultsByDoc, loadingCells, Head(timers[1].cols).id)
    /\ \E w \in everCached : w.colId = Head(timers[1].cols).id

\* C5: the re-extraction that follows a redefinition probes the Cache and builds
\* its request with the custom-type set as redefined (the current one).
C5_ReextractionUsesNewTypes ==
    \A i \in 1..Len(lastCall) :
        lastCall[i].origin = "redefine" =>
            /\ lastCall[i].customTypes = customTypes
            /\ lastCall[i].body # <<>> => lastCall[i].body[1].customTypes = customTypes

\* C6: a merge changes, in the row of a document, only the keys present in the
\* rows merged for that document; every other cell and every other row is kept.
MergeFrame(prev, next, newResults) ==
    /\ \A d \in DOMAIN prev : \A c \in DOMAIN prev[d] :
          /\ HasValue(next, d, c)
          /\ (\A i \in 1..Len(newResults) :
                 newResults[i].documentId = d => c \notin DOMAIN newResults[i].data)
             => next[d][c] = prev[d][c]
    /\ \A d \in DOMAIN next : \A c \in DOMAIN next[d] :
          \/ HasValue(prev, d, c)
          \/ \E i \in 1..Len(newResults) :
                newResults[i].documentId = d /\ c \in DOMAIN newResults[i].data

C6_MergeKeepsOtherColumns ==
    [][/\ (lastDone' # <<>> /\ lastDone'[1].ok) =>
              MergeFrame(resultsByDoc, resultsByDoc', lastDone'[1].results)
       /\ (Len(lastCall') = 1) =>
              MergeFrame(resultsByDoc, resultsByDoc',
                         cachedResultsOf(extractionCache, lastCall'[1].docs, lastCall'[1].cols,
                                         lastCall'[1].customTypes))]_vars

C6_Witness ==
    /\ Succeeded
    /\ \E i \in 1..Len(lastDone[1].results) :
          LET r == lastDone[1].results[i]
          IN /\ r.data # <<>>
             /\ \E c \in DOMAIN resultsByDoc[r.documentId] : c \notin DOMAIN r.data

MissesOf(call) ==
    {m \in Cross(call.docIds, call.colIds) :
        \E doc \in Range(call.docs), col \in Range(call.cols) :
            /\ doc.id = m[1] /\ col.id = m[2]
            /\ KeyOf(doc, col, call.customTypes) \notin DOMAIN extractionCache}

C8_RequestIsTheMisses ==
    /\ \A i \in 1..Len(lastCall) :
          LET call == lastCall[i]
              misses == MissesOf(call)
          IN IF misses = {} THEN call.body = <<>>
             ELSE /\ Len(call.body) = 1
                  /\ Range(IdsOf(call.body[1].documents)) = {m[1] : m \in misses}
                  /\ Range(IdsOf(call.body[1].columns)) = {m[2] : m \in misses}
                  /\ Len(call.body[1].documents) = Cardinality({m[1] : m \in misses})
                  /\ Len(call.body[1].columns) = Cardinality({m[2] : m \in misses})
    /\ LET issued == Issued(lastCall)
       IN /\ Len(issued) <= Len(inflight)
          /\ SubSeq(inflight, Len(inflight) - Len(issued) + 1, Len(inflight)) = issued

C8_Witness ==
    \E i \in 1..Len(lastCall) :
        /\ lastCall[i].body # <<>>
        /\ Len(lastCall[i].body[1].documents) < Len(lastCall[i].docs)

RemovalRejected(a) == a # <<>> /\ Head(a)[1] = typeInUseMessage("")[1]
EntriesNotNamed(types, n) == {i \in 1..Len(types) : types[i].name # n}
C10_RemovalGuarded ==
    [][/\ RemovalRejected(alerts') =>
              UNCHANGED <<customTypes, columns, resultsByDoc, loadingCells, extractionCache>>
       /\ Len(customTypes') < Len(customTypes) =>
              /\ \E n \in TypeNamesOf(customTypes) :
                    /\ ~\E c \in Range(columns) :
                           c.type.kind = "custom" /\ c.type.typeName = n
                    /\ n \notin TypeNamesOf(customTypes')
                    /\ Len(customTypes') = Cardinality(EntriesNotNamed(customTypes, n))
                    /\ \A t \in Range(customTypes) : t.name # n => t \in Range(customTypes')
              /\ UNCHANGED <<columns, resultsByDoc, loadingCells, extractionCache>>]_vars

C10_Witness ==
    /\ RemovalRejected(alerts)
    /\ \E c \in Range(columns) : c.type.kind = "custom"

\* C11 as stated: the alert of a rejected removal names at least one of the
\* columns that reference the type.
C11_RejectionNamesColumn ==
    RemovalRejected(alerts) =>
        \E c \in Range(columns) :
            /\ c.type.kind = "custom" /\ c.type.typeName = Head(alerts)[2]
            /\ \E i \in 1..Len(Head(alerts)) : Head(alerts)[i] = c.name

\* C11 amended: the alert of a rejected removal is the fixed text with the name
\* of the type in it, a type that some column references; no part of it is
\* taken from a column.
C11_RejectionNamesType ==
    RemovalRejected(alerts) =>
        /\ Len(alerts) = 1
        /\ \E n \in TypeNamesOf(customTypes) :
               /\ \E c \in Range(columns) : c.type.kind = "custom" /\ c.type.typeName = n
               /\ Head(alerts) = <<"Cannot remove type \"", n,
                                   "\" because it is currently being used by one or more columns.">>

C11_Witness ==
    /\ RemovalRejected(alerts)
    /\ \E c \in Range(columns) : c.type.kind = "custom" /\ c.type.typeName = Head(alerts)[2]

\* C12: every column whose type is custom references the name of a custom type
\* that is in the custom-type set.
C12_CustomColumnsReferenceExistingTypes ==
    \A c \in Range(columns) :
        c.type.kind = "custom" => c.type.typeName \in TypeNamesOf(customTypes)

\* C13: no two entries of the custom-type set have the same name.
C13_TypeNamesUnique ==
    \A i, j \in 1..Len(customTypes) : customTypes[i].name = customTypes[j].name => i = j

\* C14: the step that removes column c removes c from the columns, the key c
\* from every Matrix row and every loading entry of c; the other columns, the
\* other Matrix cells and loading entries, and the Cache are unchanged.
C14_ColumnRemovalFrame ==
    [][Len(columns') < Len(columns) =>
          \E c \in Range(IdsOf(columns)) :
              /\ columns' = SelectSeq(columns, LAMBDA x : x.id # c)
              /\ Len(columns') = Len(columns) - 1
              /\ DOMAIN resultsByDoc' = DOMAIN resultsByDoc
              /\ \A d \in DOMAIN resultsByDoc :
                     /\ DOMAIN resultsByDoc'[d] = (DOMAIN resultsByDoc[d]) \ {c}
                     /\ \A k \in DOMAIN resultsByDoc'[d] : resultsByDoc'[d][k] = resultsByDoc[d][k]
              /\ loadingCells' = {k \in loadingCells : k[2] # c}
              /\ extractionCache' = extractionCache]_vars

C14_Witness ==
    \E w \in everCached :
        /\ w.colId \notin Range(IdsOf(columns))
        /\ w.docId \in DOMAIN resultsByDoc
        /\ w.colId \notin DOMAIN resultsByDoc[w.docId]
        /\ DOMAIN resultsByDoc[w.docId] # {}
        /\ w.key \in DOMAIN extractionCache

\* C15: when a response is applied for a batch that was in flight together with
\* another batch whose response, for the same cell, was applied before, the
\* Matrix holds the value of the response applied last.
C15_LastResponseWins ==
    Succeeded =>
        \A k \in 1..Len(lastDone[1].inv.overlap) :
            \A i \in 1..Len(lastDone[1].results) :
                LET r == lastDone[1].results[i]
                IN \A c \in DOMAIN r.data :
                      /\ HasValue(resultsByDoc, r.documentId, c)
                      /\ resultsByDoc[r.documentId][c] = r.data[c]

C15_Witness ==
    /\ Succeeded
    /\ \E k \in 1..Len(lastDone[1].inv.overlap) :
          LET o == lastDone[1].inv.overlap[k]
          IN /\ o.issuedLater
             /\ \E i \in 1..Len(lastDone[1].results), j \in 1..Len(o.results) :
                   LET r == lastDone[1].results[i]
                       q == o.results[j]
                   IN /\ r.documentId = q.documentId
                      /\ \E c \in (DOMAIN r.data) \cap (DOMAIN q.data) :
                            r.data[c] # q.data[c] /\ resultsByDoc[r.documentId][c] = r.data[c]

\* C16: every cell listed by a request that has been issued and has not resolved
\* is in the loading set, also while batches targeting the same cell overlap.
RequestedCells(inv) ==
    Cross(IdsOf(inv.body[1].documents), IdsOf(inv.body[1].columns))
C16_LoadingWhileAwaiting ==
    \A j \in 1..Len(inflight) : RequestedCells(inflight[j]) \subseteq loadingCells

\* the targeted cells of an invocation that were in the Cache when it probed
HitsOf(call) == Cross(call.docIds, call.colIds) \ MissesOf(call)

C18_CellsLostOnlyByRemovalOrRedefinition ==
    [][\A d \in DOMAIN resultsByDoc : \A c \in DOMAIN resultsByDoc[d] :
          ~HasValue(resultsByDoc', d, c) =>
              /\ lastCall' = <<>> /\ lastDone' = <<>>
              /\ \/ c \in Range(IdsOf(columns)) /\ c \notin Range(IdsOf(columns'))
                 \/ d \in Range(IdsOf(documents)) /\ d \notin Range(IdsOf(documents'))
                 \/ /\ Len(timers') = Len(timers) + 1
                    /\ c \in Range(IdsOf(timers'[Len(timers')].cols))
                    /\ \E col \in Range(columns) : col.id = c /\ col.type.kind = "custom"]_vars

C18_Witness ==
    /\ Succeeded
    /\ \E cell \in CellsOf(lastDone[1].inv) :
          /\ HasValue(resultsByDoc, cell[1], cell[2])
          /\ \A i \in 1..Len(lastDone[1].results) :
                lastDone[1].results[i].documentId = cell[1]
                => cell[2] \notin DOMAIN lastDone[1].results[i].data

\* C19: extractForNewColumn(column) behaves as extractForNewDocuments(all
\* documents, [column]): from the same documents, custom types, Matrix, loading
\* set and Cache it sends the same request, and given the same response it ends
\* in the same Matrix, loading set and Cache.
AsDocuments(inv) == [inv EXCEPT !.fn = "documents"]
C19_ColumnIsDocumentsOnOneColumn ==
    [][/\ (Len(lastCall') = 1 /\ lastCall'[1].fn = "column") =>
              LET call == lastCall'[1]
                  other == extractForNewDocuments(call.origin, call.docs, call.cols,
                               call.customTypes, resultsByDoc, loadingCells, extractionCache)
              IN /\ Len(other.call) = 1
                 /\ other.call[1].body = call.body
                 /\ other.results = resultsByDoc'
                 /\ other.loading = loadingCells'
       /\ (lastDone' # <<>> /\ lastDone'[1].ok /\ lastDone'[1].inv.fn = "column") =>
              LET inv == lastDone'[1].inv
                  results == lastDone'[1].results
              IN /\ extractionCache' =
                        applyWrites(extractionCache, cacheWrites(AsDocuments(inv), results))
                 /\ resultsByDoc' = mergeExtractionResults(resultsByDoc, results)
                 /\ loadingCells' = markCellsDone(loadingCells, inv.docIds, inv.colIds)]_vars

\* C20: re-extracting a column without changing its definition, when every
\* targeted cell is in the Cache under its current fingerprint with a row holding
\* the column (a successful batch for the same document texts, column definition
\* and custom types returned them), issues no request and leaves the Matrix and
\* the Cache unchanged.
AllCellsCached(cache, docs, cols, types) ==
    \A doc \in Range(docs), col \in Range(cols) :
        /\ KeyOf(doc, col, types) \in DOMAIN cache
        /\ col.id \in DOMAIN cache[KeyOf(doc, col, types)]

C20_ReinvocationChangesNothing ==
    [][\A i \in 1..Len(lastCall') :
          LET call == lastCall'[i]
          IN (/\ call.origin = "reextract"
              /\ Range(call.cols) \subseteq Range(columns)
              /\ call.docs = documents
              /\ call.customTypes = customTypes
              /\ AllCellsCached(extractionCache, call.docs, call.cols, call.customTypes))
             => /\ call.body = <<>>
                /\ resultsByDoc' = resultsByDoc
                /\ extractionCache' = extractionCache]_vars

\* C20 (amended): such an invocation issues no request and leaves the Cache
\* unchanged; in the Matrix every targeted cell ends with its cached value and
\* every other cell is unchanged; the Matrix as a whole is unchanged when the
\* invocation directly follows the successful batch for the same documents,
\* columns and custom types in which every targeted cell appeared.
EveryCellReturned(inv, results) ==
    \A cell \in CellsOf(inv) :
        \E i \in 1..Len(results) :
            results[i].documentId = cell[1] /\ cell[2] \in DOMAIN results[i].data

C20_ReinvocationServedFromCache ==
    [][\A i \in 1..Len(lastCall') :
          LET call == lastCall'[i]
          IN /\ AllCellsCached(extractionCache, call.docs, call.cols, call.customTypes)
                => /\ call.body = <<>>
                   /\ extractionCache' = extractionCache
                   /\ \A doc \in Range(call.docs), col \in Range(call.cols) :
                         /\ HasValue(resultsByDoc', doc.id, col.id)
                         /\ resultsByDoc'[doc.id][col.id] =
                               extractionCache[KeyOf(doc, col, call.customTypes)][col.id]
                   /\ \A d \in DOMAIN resultsByDoc : \A c \in DOMAIN resultsByDoc[d] :
                         <<d, c>> \notin CellsOf(call)
                         => HasValue(resultsByDoc', d, c) /\ resultsByDoc'[d][c] = resultsByDoc[d][c]
                   /\ \A d \in DOMAIN resultsByDoc' : \A c \in DOMAIN resultsByDoc'[d] :
                         <<d, c>> \notin CellsOf(call) => HasValue(resultsByDoc, d, c)
             /\ (/\ Succeeded
                 /\ lastDone[1].inv.docs = call.docs
                 /\ lastDone[1].inv.cols = call.cols
                 /\ lastDone[1].inv.customTypes = call.customTypes
                 /\ EveryCellReturned(lastDone[1].inv, lastDone[1].results))
                => /\ call.body = <<>>
                   /\ resultsByDoc' = resultsByDoc
                   /\ extractionCache' = extractionCache]_vars

\* a re-extraction that found every targeted cell in the Cache
C20_Witness ==
    /\ Len(lastCall) = 1
    /\ lastCall[1].origin = "reextract"
    /\ lastCall[1].body = <<>>
    /\ AllCellsCached(extractionCache, lastCall[1].docs, lastCall[1].cols,
                      lastCall[1].customTypes)
    /\ \A cell \in CellsOf(lastCall[1]) : HasValue(resultsByDoc, cell[1], cell[2])

\* C26: an extraction invocation that ends in failure writes no Cache entry: the
\* Cache after the failure is the Cache before it.
C26_FailureWritesNoCacheEntry ==
    [][(lastDone' # <<>> /\ ~lastDone'[1].ok) => extractionCache' = extractionCache]_vars

\* C28: in every reachable state the Matrix holds rows only for existing
\* documents and values only for existing columns.
C28_MatrixWithinDocumentsAndColumns ==
    \A d \in DOMAIN resultsByDoc :
        /\ d \in Range(IdsOf(documents))
        /\ \A c \in DOMAIN resultsByDoc[d] : c \in Range(IdsOf(columns))

\* C29: every row written to the Cache under the fingerprint of (d, c) holds a
\* value for c, and after an invocation that found the fingerprint of (d, c) in
\* the Cache the Matrix holds a value for (d, c).
C29_CacheHitPopulatesCell ==
    /\ \A w \in everCached : ~w.isNull => w.colId \in DOMAIN w.value
    /\ \A i \in 1..Len(lastCall) :
          \A cell \in HitsOf(lastCall[i]) : HasValue(resultsByDoc, cell[1], cell[2])

\* C30: every request sent satisfies the route's RequestSchema: at least one
\* document and one column, and every listed document has a non-empty id, name
\* and text.
C30_RequestsPassValidation ==
    \A i \in 1..Len(inflight) :
        LET body == inflight[i].body[1]
        IN /\ body.documents # <<>>
           /\ body.columns # <<>>
           /\ \A d \in Range(body.documents) : d.id # 0 /\ d.name # "" /\ d.text # ""

\* C25: every new row and every new column gets populated: for any interleaving
\* of uploads and column additions in which uploads and requests resolve, every
\* cell (d, c) of a document and a column that stay is eventually targeted by an
\* extraction that probes or requests d with its final text (stated for the
\* documents whose final text is not empty).
DocIds == 1..(1 + MaxOps * MaxFiles)
ColIds == 1..MaxOps
StaysAs(d, c, t) ==
    /\ \E doc \in Range(documents) : doc.id = d /\ doc.text = t
    /\ c \in Range(IdsOf(columns))
    /\ uploads = <<>>
TargetedAs(d, c, t) ==
    \E i \in 1..Len(lastCall) :
        /\ c \in Range(lastCall[i].colIds)
        /\ \E doc \in Range(lastCall[i].docs) : doc.id = d /\ doc.text = t
C25_EveryCellEventuallyTargeted ==
    \A d \in DocIds, c \in ColIds :
        <>[]StaysAs(d, c, FileText) => <>TargetedAs(d, c, FileText)

\* C21: the compiled schema has one property per column id, shaped by the
\* column: base/one a nullable scalar of the base type, base/many an array of
\* it, custom/one a nullable object whose keys are exactly the type's attribute
\* names, each a nullable scalar of the attribute's base type, custom/many an
\* array of such objects.
ScalarName(baseType) ==
    CASE baseType = "text" -> "string" [] baseType = "number" -> "number"
      [] baseType = "date" -> "string" [] baseType = "boolean" -> "boolean"
IsNullableScalar(sch, baseType) ==
    /\ sch.type = <<ScalarName(baseType), "null">>
    /\ baseType = "date" => "format" \in DOMAIN sch /\ sch.format = "date"
IsObjectOf(sch, t, nullable) ==
    /\ Range(sch.type) = IF nullable THEN {"object", "null"} ELSE {"object"}
    /\ DOMAIN sch.properties = {a.name : a \in Range(t.attributes)}
    /\ Range(sch.required) = DOMAIN sch.properties
    /\ \A a \in Range(t.attributes) : IsNullableScalar(sch.properties[a.name], a.type)
HasShape(sch, col, types, nullable) ==
    LET one == IF col.cardinality = "many" THEN sch.items ELSE sch
    IN /\ col.cardinality = "many" => sch.type = <<"array">>
       /\ col.cardinality = "one" => "items" \notin DOMAIN sch
       /\ IF col.type.kind = "base" THEN IsNullableScalar(one, col.type.baseType)
          ELSE \E t \in Range(types) :
                  t.name = col.type.typeName /\ IsObjectOf(one, t, nullable)
CompiledAs(nullable) ==
    post.pc # "idle" /\ post.schema # <<>> =>
        LET schema == post.schema[1]
            cols == post.body.columns
        IN /\ DOMAIN schema.properties = Range(IdsOf(cols))
           /\ Range(schema.required) = Range(IdsOf(cols))
           /\ \A col \in Range(cols) :
                 HasShape(schema.properties[col.id], col, post.body.customTypes, nullable)

UnknownTypeNames(body) ==
    {c.type.typeName : c \in {x \in Range(body.columns) :
        x.type.kind = "custom" /\ x.type.typeName \notin TypeNamesOf(body.customTypes)}}
C22_UnknownTypeFailsBeforeAnyCall ==
    (post.pc # "idle" /\ UnknownTypeNames(post.body) # {}) =>
        /\ post.calls = <<>>
        /\ post.schema = <<>>
        /\ post.pc \in {"received", "parsed", "responded"}
        /\ post.pc = "responded" =>
              /\ post.response[1].status = 400
              /\ post.response[1].results = <<>>
              /\ (RequestSchemaAccepts(post.body) /\ post.configured) =>
                    /\ post.response[1].message[1] = "Unknown custom type: "
                    /\ post.response[1].message[2] \in UnknownTypeNames(post.body)
        /\ Succeeded => FALSE

\* the page was told of the unknown type of a request with two documents
C22_Witness ==
    /\ post.pc = "responded"
    /\ Len(post.body.documents) = 2
    /\ post.response[1].message = <<"Unknown custom type: ", "Org">>
    /\ Failed
    /\ post.calls = <<>>

\* C27: the route handles a request as a unit: the completions of all its
\* documents are requested together, and when the completion of one document
\* fails the response is an error without any of the rows already computed, so
\* the page ends the invocation as failed with the Matrix and the Cache as they
\* were.
C27_BatchFailsAsAUnit ==
    [][(post.pc # "idle" /\ post'.pc # "idle") =>
          /\ post'.calls # <<>> => Len(post'.calls) = Len(post'.body.documents)
          /\ (\E i \in 1..Len(post'.calls) : post'.calls[i].state = "threw") =>
                /\ post'.pc = "responded"
                /\ post'.response[1].status = 400
                /\ post'.response[1].results = <<>>
                /\ lastDone' # <<>> =>
                      /\ ~lastDone'[1].ok
                      /\ resultsByDoc' = resultsByDoc
                      /\ extractionCache' = extractionCache]_vars

\* the second document's completion failed after the first returned a value,
\* and the page has received the response
C27_Witness ==
    /\ post.pc = "responded"
    /\ Len(post.calls) = 2
    /\ post.calls[1].state = "returned" /\ post.calls[1].data # EmptyRow
    /\ post.calls[2].state = "threw"
    /\ Failed
    /\ extractionCache = <<>>

\* C23: the fingerprint is a function of its five inputs, and for a fixed
\* document id and column id two inputs that differ in the document text, in the
\* column definition or in the custom types have different fingerprints.
C23_FingerprintInjective ==
    hashed.keys # <<>> =>
        /\ hashed.a = hashed.b => hashed.keys[1] = hashed.keys[2]
        /\ hashed.a # hashed.b => hashed.keys[1] # hashed.keys[2]

\* the store or its content could not be read when the Cache was probed
Unreadable(at) == at.storage \in {"null", "throws"} \/ at.item.form = "garbage"

\* C24: a Cache read never raises: with the store missing, throwing or holding
\* text that is not JSON, get gives null, the cell is treated as a miss and is
\* requested; a Cache write that fails is ignored and the response is still
\* merged into the Matrix.
C24_CacheFailuresAreMisses ==
    store.kind = "localStorage" =>
        /\ ~store.raised
        /\ store.pc # "start" /\ Unreadable(store.at) =>
              /\ store.cached = Null
              /\ store.pc \in {"requested", "failed"} \/ store.response # <<>>
        /\ store.setFailed =>
              /\ store.pc = "done"
              /\ PersistDoc.id \in DOMAIN resultsByDoc
              /\ \A c \in DOMAIN store.response[1].data :
                    /\ c \in DOMAIN resultsByDoc[PersistDoc.id]
                    /\ resultsByDoc[PersistDoc.id][c] = store.response[1].data[c]

\* the stored text was not JSON and the write of the response failed, and the
\* value of the response is in the Matrix
C24_Witness ==
    /\ store.kind = "localStorage"
    /\ store.at.item.form = "garbage"
    /\ store.setFailed
    /\ store.pc = "done"
    /\ PersistDoc.id \in DOMAIN resultsByDoc
    /\ PersistColumn.id \in DOMAIN resultsByDoc[PersistDoc.id]

====
